---- MODULE Spec2Model ----
(***************************************************************************)
(* Flip-dot panel driver: the Hanover wire encoding (column packing,       *)
(* packet framing and checksum), the paced packet sender, the roll and     *)
(* scroll animations and display() of main.py, and the de-duplicated       *)
(* playback loop of wave.py.                                               *)
(*                                                                         *)
(* A numpy array is a sequence of rows, each row a sequence of 0/1 cells;  *)
(* numpy index i is index i+1 here.  A bytes object is a sequence of       *)
(* integers 0..255.  Time is counted in ticks of 1/300 s, the unit in      *)
(* which FRAME_INTERVAL (119/300 s) is a whole number.                     *)
(***************************************************************************)
EXTENDS Integers, Sequences, FiniteSets, TLC

VARIABLES
    pc,             \* position of the running script
    address,        \* _build_packet: address argument
    image_bytes,    \* _build_packet: image_bytes argument
    packet,         \* _build_packet: returned packet
    image,          \* _image_to_bytes: image argument
    packed,         \* _image_to_bytes: returned bytes
    current_frame,  \* main.py global current_frame (the tracked display state)
    arr,            \* display(): text_to_pixels(text) of the running call
    animate,        \* display(): animate argument of the running call
    entry_frame,    \* history: current_frame when the running call was entered
    packets,        \* packets still to be written by the running send loop
    written,        \* history: packets written and flushed to ser, in order
    gap,            \* history: ticks from the start of the last write to the
                    \*          moment the loop went on to the next one (-1: none)
    raw_packets,    \* wave.py: the packet list handed to dedupe_packets
    deduped         \* wave.py: the list returned by dedupe_packets

vars == << pc, address, image_bytes, packet, image, packed, current_frame, arr,
           animate, entry_frame, packets, written, gap, raw_packets, deduped >>

----------------------------------------------------------------------------
(* Configuration                                                           *)

SIGN_ADDRESS == 2
BAUD_RATE == 4800
SCROLL_STEP == 1

\* Panel geometry, scaled down from the 7 x 84 panel of the source.
DISP_H == 2
DISP_W == 2

\* FRAME_INTERVAL = (176 * 10 / BAUD_RATE) + 0.03 s = 119/300 s, in ticks.
FRAME_INTERVAL == (176 * 10 * 300) \div BAUD_RATE + 9

----------------------------------------------------------------------------
(* Bounds of the explored inputs                                           *)

MaxRows == 9          \* _image_to_bytes: most rows of an image
MaxCols == 2          \* _image_to_bytes: most columns of an image
MaxPayloadLen == 2    \* _build_packet: longest enumerated short payload
MaxFrames == 6        \* wave.py: most raw frames
MaxWrites == 8        \* wave.py: the playback loop is followed this far

----------------------------------------------------------------------------
(* Helpers for sequences and arrays                                        *)

\* sum(s), by halves so that long byte strings need little nesting.
RECURSIVE SumSeq(_)
SumSeq(s) ==
    IF Len(s) = 0 THEN 0
    ELSE IF Len(s) = 1 THEN s[1]
    ELSE LET h == Len(s) \div 2
         IN  SumSeq(SubSeq(s, 1, h)) + SumSeq(SubSeq(s, h + 1, Len(s)))

Reverse(s) ==
    [i \in 1..Len(s) |-> s[Len(s) + 1 - i]]

RECURSIVE Pow2(_)
Pow2(k) ==
    IF k = 0 THEN 1 ELSE 2 * Pow2(k - 1)

zeros(rows, cols) ==
    [r \in 1..rows |-> [c \in 1..cols |-> 0]]

\* np.pad(a, ((0, 0), (left, right))): blank columns on both sides.
pad_cols(a, left, right) ==
    [r \in 1..Len(a) |->
        [c \in 1..(left + Len(a[1]) + right) |->
            IF c > left /\ c <= left + Len(a[1]) THEN a[r][c - left] ELSE 0]]

----------------------------------------------------------------------------
(* _image_to_bytes                                                         *)

\* Mutant: the first of the 8 rows taken as the least significant bit.
packbits_little(a) ==
    [j \in 1..(Len(a) \div 8) |->
        [c \in 1..Len(a[1]) |->
            SumSeq([i \in 1..8 |-> a[8 * (j - 1) + i][c] * Pow2(i - 1)])]]

\* np.packbits(a, axis=0): every 8 consecutive rows become one row of bytes,
\* the first of the 8 rows being the most significant bit.
packbits(a) ==
    [j \in 1..(Len(a) \div 8) |->
        [c \in 1..Len(a[1]) |->
            SumSeq([i \in 1..8 |-> a[8 * (j - 1) + i][c] * Pow2(8 - i)])]]

\* a.flatten(order="F"): column by column, each column top to bottom.
flatten_F(a) ==
    [n \in 1..(Len(a) * Len(a[1])) |->
        a[((n - 1) % Len(a)) + 1][((n - 1) \div Len(a)) + 1]]

_image_to_bytes(img) ==
    LET rows == Len(img)
        cols == Len(img[1])
        data_rows == ((rows + 7) \div 8) * 8          \* (rows + 7) & ~7
        padded == IF data_rows # rows
                  THEN [r \in 1..data_rows |->
                           IF r <= rows THEN img[r] ELSE zeros(1, cols)[1]]
                  ELSE img
        pk == packbits(Reverse(padded))
    IN  flatten_F(Reverse(pk))

----------------------------------------------------------------------------
(* _build_packet                                                           *)

\* One hexadecimal digit as its lower-case ASCII code (bytes.hex()).
hex_lower(d) ==
    IF d < 10 THEN 48 + d ELSE 87 + d

\* str.upper() on one ASCII code.
upper(c) ==
    IF c >= 97 /\ c <= 122 THEN c - 32 ELSE c

\* The digits of format(n, "X"), most significant first.
RECURSIVE format_X(_)
format_X(n) ==
    IF n < 16 THEN << upper(hex_lower(n)) >>
    ELSE Append(format_X(n \div 16), upper(hex_lower(n % 16)))

\* format(n, "02X"): zero-padded to at least two digits.
format_02X(n) ==
    IF n < 16 THEN << 48 >> \o format_X(n) ELSE format_X(n)

\* image_bytes.hex().upper()
hex_upper(bs) ==
    [i \in 1..(2 * Len(bs)) |->
        IF i % 2 = 1 THEN upper(hex_lower(bs[(i + 1) \div 2] \div 16))
        ELSE upper(hex_lower(bs[i \div 2] % 16))]

\* sum(body) & 0xFF
body_total(body) ==
    SumSeq(body) % 256

\* Mutant: the one's complement, the "+ 1" forgotten.
packet_checksum_ones(total) ==
    (255 - total) % 256

\* ((total ^ 0xFF) + 1) & 0xFF; for 0 <= total <= 255, total ^ 0xFF = 255 - total.
packet_checksum(total) ==
    ((255 - total) + 1) % 256

\* Mutant: the length left unmasked.
packet_resolution_unmasked(bs) ==
    Len(bs)

\* len(image_bytes) & 0xFF
packet_resolution(bs) ==
    Len(bs) % 256

packet_body(addr, bs) ==
    << 49 >> \o format_X(addr) \o format_02X(packet_resolution(bs))
        \o hex_upper(bs) \o << 3 >>

_build_packet(addr, bs) ==
    LET body == packet_body(addr, bs)
    IN  << 2 >> \o body \o format_02X(packet_checksum(body_total(body)))

_frame_to_packet(frame) ==
    _build_packet(SIGN_ADDRESS, _image_to_bytes(frame))

----------------------------------------------------------------------------
(* Values of the variables a script does not use                           *)

NoCodec == address = 0 /\ image_bytes = << >> /\ packet = << >>
NoPacker == image = << >> /\ packed = << >>
NoDisplay ==
    /\ current_frame = << >> /\ arr = << >> /\ animate = FALSE
    /\ entry_frame = << >>
NoChannel == packets = << >> /\ written = << >> /\ gap = -1
NoWave == raw_packets = << >> /\ deduped = << >>

----------------------------------------------------------------------------
(* _build_packet applied to enumerated arguments                           *)

ByteSamples == {0, 15, 16, 165, 255}

RECURSIVE SeqsUpTo(_, _)
SeqsUpTo(S, n) ==
    IF n = 0 THEN {<< >>}
    ELSE LET shorter == SeqsUpTo(S, n - 1)
         IN  shorter \cup {Append(s, x) : s \in shorter, x \in S}

\* Payloads around the 256-byte wrap of the resolution field.
LongPayloads ==
    {[i \in 1..n |-> (b + i) % 256] : n \in {255, 256, 257}, b \in ByteSamples}

Payloads == SeqsUpTo(ByteSamples, MaxPayloadLen) \cup LongPayloads

InitCodec ==
    /\ pc = "codec"
    /\ address \in 0..15
    /\ image_bytes \in Payloads
    /\ packet = << >>
    /\ NoPacker /\ NoDisplay /\ NoChannel /\ NoWave

BuildPacket ==
    /\ pc = "codec"
    /\ packet' = _build_packet(address, image_bytes)
    /\ pc' = "built"
    /\ UNCHANGED << address, image_bytes, image, packed, current_frame, arr,
                    animate, entry_frame, packets, written, gap, raw_packets,
                    deduped >>

NextCodec == BuildPacket

SpecCodec == InitCodec /\ [][NextCodec]_vars

----------------------------------------------------------------------------
(* _image_to_bytes applied to enumerated arguments                         *)

grid_of(rows, cols, lit) ==
    [r \in 1..rows |-> [c \in 1..cols |-> IF << r, c >> \in lit THEN 1 ELSE 0]]

\* Blank, fully lit, and every grid with one or two lit cells.
LitSets(rows, cols) ==
    LET cells == (1..rows) \X (1..cols)
    IN  {{}, cells} \cup {{a, b} : a \in cells, b \in cells}

Images ==
    UNION {{grid_of(r, c, lit) : lit \in LitSets(r, c)} :
              r \in 1..MaxRows, c \in 1..MaxCols}

InitPack ==
    /\ pc = "pack"
    /\ image \in Images
    /\ packed = << >>
    /\ NoCodec /\ NoDisplay /\ NoChannel /\ NoWave

ImageToBytes ==
    /\ pc = "pack"
    /\ packed' = _image_to_bytes(image)
    /\ pc' = "packed"
    /\ UNCHANGED << address, image_bytes, packet, image, current_frame, arr,
                    animate, entry_frame, packets, written, gap, raw_packets,
                    deduped >>

NextPack == ImageToBytes

SpecPack == InitPack /\ [][NextPack]_vars

----------------------------------------------------------------------------
(* main.py: text rendering, animations, display()                          *)

\* text_to_pixels is the external rasterizer.  It drops every blank row
\* (main.py:97), so each row it returns holds a lit cell; the explored texts
\* are DISP_H rows high with one lit cell in each row, and at most one
\* column wider than the panel.
one_hot(w, k) ==
    [c \in 1..w |-> IF c = k THEN 1 ELSE 0]

Rendered ==
    UNION {{[r \in 1..DISP_H |-> one_hot(w, f[r])] : f \in [1..DISP_H -> 1..w]} :
              w \in 1..(DISP_W + 1)}

None == << >>

text_to_frame(a) ==
    IF Len(a[1]) <= DISP_W
    THEN pad_cols(a, 0, DISP_W - Len(a[1]))
    ELSE None

zeros_like(a) ==
    zeros(Len(a), Len(a[1]))

\* Mutant: the old rows kept in place instead of moving down.
roll_frame_unshifted(old_frame, new_frame, shift) ==
    [r \in 1..DISP_H |->
        IF r <= shift THEN new_frame[r] ELSE old_frame[r]]

\* The frame roll_transition builds for one shift.
roll_frame(old_frame, new_frame, shift) ==
    LET blank == zeros(DISP_H, DISP_W)
        rest == DISP_H - shift
    IN  [r \in 1..DISP_H |->
            IF r <= shift THEN new_frame[r]
            ELSE IF rest > 0 THEN old_frame[r - shift]
            ELSE blank[r]]

\* The packets list of roll_transition.
roll_packets(old_frame, new_frame) ==
    [shift \in 1..DISP_H |-> _frame_to_packet(roll_frame(old_frame, new_frame, shift))]

\* len(range(start, stop, step)) for step >= 1
range_len(start, stop, step) ==
    IF stop <= start THEN 0 ELSE (stop - start + step - 1) \div step

\* padded[:, i:i + DISP_W]
window(padded, i) ==
    [r \in 1..Len(padded) |-> SubSeq(padded[r], i + 1, i + DISP_W)]

\* The packets list of scroll_text.
scroll_packets(a) ==
    LET padded == pad_cols(a, DISP_W, DISP_W)
    IN  [n \in 1..range_len(0, Len(a[1]) + DISP_W, SCROLL_STEP) |->
            _frame_to_packet(window(padded, (n - 1) * SCROLL_STEP))]

\* What ser.write plus ser.flush may take, in ticks.
Latencies == {0, FRAME_INTERVAL, FRAME_INTERVAL + 30}

\* _send_packets: the sleep after a write that took `elapsed`.
sleep_ticks(elapsed) ==
    LET remaining == FRAME_INTERVAL - elapsed
    IN  IF remaining > 0 THEN remaining ELSE 0

Init ==
    /\ pc = "listening"
    /\ current_frame = zeros(DISP_H, DISP_W)
    /\ arr = << >>
    /\ animate = FALSE
    /\ entry_frame = zeros(DISP_H, DISP_W)
    /\ NoChannel /\ NoCodec /\ NoPacker /\ NoWave

\* display(text, animate) up to its first send.
Display ==
    /\ pc = "listening"
    /\ \E a \in Rendered, an \in BOOLEAN :
        LET new_frame == text_to_frame(a)
        IN  /\ arr' = a
            /\ animate' = an
            /\ IF new_frame # None
               THEN IF an
                    THEN /\ packets' = roll_packets(current_frame, new_frame)
                         /\ pc' = "roll"
                    ELSE /\ packets' = << _frame_to_packet(new_frame) >>
                         /\ pc' = "send_frame"
               ELSE IF an
                    THEN /\ packets' = roll_packets(current_frame, zeros_like(current_frame))
                         /\ pc' = "roll"
                    ELSE /\ packets' = scroll_packets(a)
                         /\ pc' = "scroll"
    /\ entry_frame' = current_frame
    /\ written' = << >>
    /\ gap' = -1
    /\ UNCHANGED << current_frame, address, image_bytes, packet, image, packed,
                    raw_packets, deduped >>

\* send_frame(new_frame): write and flush, no pacing.
SendFrame ==
    /\ pc = "send_frame"
    /\ packets # << >>
    /\ written' = Append(written, Head(packets))
    /\ packets' = Tail(packets)
    /\ UNCHANGED << pc, current_frame, arr, animate, entry_frame, gap, address,
                    image_bytes, packet, image, packed, raw_packets, deduped >>

\* One turn of the loop of _send_packets: write, flush, sleep.
SendPackets ==
    /\ pc \in {"roll", "scroll"}
    /\ packets # << >>
    /\ \E latency \in Latencies :
        gap' = latency + sleep_ticks(latency)
    /\ written' = Append(written, Head(packets))
    /\ packets' = Tail(packets)
    /\ UNCHANGED << pc, current_frame, arr, animate, entry_frame, address,
                    image_bytes, packet, image, packed, raw_packets, deduped >>

\* The send of a text that fits has returned: current_frame = new_frame.
FrameCommit ==
    /\ pc \in {"send_frame", "roll"}
    /\ packets = << >>
    /\ text_to_frame(arr) # None
    /\ current_frame' = text_to_frame(arr)
    /\ pc' = "returned"
    /\ gap' = -1
    /\ UNCHANGED << arr, animate, entry_frame, packets, written, address,
                    image_bytes, packet, image, packed, raw_packets, deduped >>

\* The roll to blank has returned: scroll_text(text_to_pixels(text)) starts.
ScrollStart ==
    /\ pc = "roll"
    /\ packets = << >>
    /\ text_to_frame(arr) = None
    /\ packets' = scroll_packets(arr)
    /\ pc' = "scroll"
    /\ gap' = -1
    /\ UNCHANGED << current_frame, arr, animate, entry_frame, written, address,
                    image_bytes, packet, image, packed, raw_packets, deduped >>

\* Mutant: the tracked frame left as it was after a scroll.
ScrollDone_keep ==
    /\ pc = "scroll"
    /\ packets = << >>
    /\ pc' = "returned"
    /\ gap' = -1
    /\ UNCHANGED << current_frame, arr, animate, entry_frame, packets, written,
                    address, image_bytes, packet, image, packed, raw_packets,
                    deduped >>

\* scroll_text has returned: current_frame[:] = 0.
ScrollDone ==
    /\ pc = "scroll"
    /\ packets = << >>
    /\ current_frame' = zeros_like(current_frame)
    /\ pc' = "returned"
    /\ gap' = -1
    /\ UNCHANGED << arr, animate, entry_frame, packets, written, address,
                    image_bytes, packet, image, packed, raw_packets, deduped >>

\* Mutant: a failed write clears the tracked frame.
WriteFails_clear ==
    /\ pc \in {"send_frame", "roll", "scroll"}
    /\ packets # << >>
    /\ pc' = "raised"
    /\ current_frame' = zeros_like(current_frame)
    /\ UNCHANGED << arr, animate, entry_frame, packets, written, gap,
                    address, image_bytes, packet, image, packed, raw_packets,
                    deduped >>

\* ser.write or ser.flush raises: nothing catches it, the script ends.
WriteFails ==
    /\ pc \in {"send_frame", "roll", "scroll"}
    /\ packets # << >>
    /\ pc' = "raised"
    /\ UNCHANGED << current_frame, arr, animate, entry_frame, packets, written,
                    gap, address, image_bytes, packet, image, packed,
                    raw_packets, deduped >>

\* display() has returned and the script waits for the next key event; the
\* history of the finished call is dropped.
Listen ==
    /\ pc = "returned"
    /\ pc' = "listening"
    /\ arr' = << >>
    /\ animate' = FALSE
    /\ entry_frame' = current_frame
    /\ written' = << >>
    /\ UNCHANGED << current_frame, packets, gap, address, image_bytes, packet,
                    image, packed, raw_packets, deduped >>

Next ==
    \/ Display
    \/ Listen
    \/ SendFrame
    \/ SendPackets
    \/ FrameCommit
    \/ ScrollStart
    \/ ScrollDone
    \/ WriteFails

Spec == Init /\ [][Next]_vars

----------------------------------------------------------------------------
(* wave.py: de-duplication and the playback loop                           *)

\* make_wave_frames computes its frames with floating-point trigonometry,
\* which is not modelled: the frame list is any list over two frames that
\* differ, of any length up to MaxFrames (num_frames is a parameter).
WaveFrames ==
    {zeros(DISP_H, DISP_W), [r \in 1..DISP_H |-> [c \in 1..DISP_W |-> 1]]}

\* Mutant: a packet is dropped when it occurred anywhere before.
RECURSIVE dedupe_loop_unique(_, _)
dedupe_loop_unique(acc, rest) ==
    IF rest = << >> THEN acc
    ELSE IF \A i \in 1..Len(acc) : acc[i] # Head(rest)
         THEN dedupe_loop_unique(Append(acc, Head(rest)), Tail(rest))
         ELSE dedupe_loop_unique(acc, Tail(rest))

\* The for loop of dedupe_packets: acc is `deduped`, rest the packets left.
RECURSIVE dedupe_loop(_, _)
dedupe_loop(acc, rest) ==
    IF rest = << >> THEN acc
    ELSE IF Head(rest) # acc[Len(acc)]
         THEN dedupe_loop(Append(acc, Head(rest)), Tail(rest))
         ELSE dedupe_loop(acc, Tail(rest))

\* dedupe_packets: packets[0] raises IndexError on an empty list.
dedupe_packets(ps) ==
    IF Len(ps) = 0
    THEN [raised |-> TRUE, value |-> << >>]
    ELSE [raised |-> FALSE, value |-> dedupe_loop(<< ps[1] >>, Tail(ps))]

InitWave ==
    /\ pc = "wave_start"
    /\ raw_packets \in
           {[i \in 1..Len(fs) |-> _build_packet(SIGN_ADDRESS, _image_to_bytes(fs[i]))] :
               fs \in SeqsUpTo(WaveFrames, MaxFrames)}
    /\ deduped = << >>
    /\ NoChannel /\ NoCodec /\ NoPacker /\ NoDisplay

\* packets = dedupe_packets([...])
Dedupe ==
    /\ pc = "wave_start"
    /\ LET res == dedupe_packets(raw_packets)
       IN  IF res.raised
           THEN /\ pc' = "index_error"
                /\ UNCHANGED << deduped, packets >>
           ELSE /\ pc' = "playing"
                /\ deduped' = res.value
                /\ packets' = res.value
    /\ UNCHANGED << raw_packets, written, gap, address, image_bytes, packet,
                    image, packed, current_frame, arr, animate, entry_frame >>

\* One turn of "for packet in packets" inside "while True": write and flush.
WavePlay ==
    /\ pc = "playing"
    /\ Len(written) < MaxWrites
    /\ \E latency \in Latencies :
        gap' = latency
    /\ written' = Append(written, Head(packets))
    /\ packets' = IF Tail(packets) = << >> THEN deduped ELSE Tail(packets)
    /\ UNCHANGED << pc, raw_packets, deduped, address, image_bytes, packet,
                    image, packed, current_frame, arr, animate, entry_frame >>

\* KeyboardInterrupt: send_frame(blank), then the script ends.
WaveInterrupt ==
    /\ pc = "playing"
    /\ written' = Append(written, _build_packet(SIGN_ADDRESS,
                                     _image_to_bytes(zeros(DISP_H, DISP_W))))
    /\ pc' = "done"
    /\ UNCHANGED << raw_packets, deduped, packets, gap, address, image_bytes,
                    packet, image, packed, current_frame, arr, animate,
                    entry_frame >>

\* ser.write or ser.flush raises in the loop: the script ends.
WaveWriteFails ==
    /\ pc = "playing"
    /\ Len(written) < MaxWrites
    /\ pc' = "raised"
    /\ UNCHANGED << raw_packets, deduped, packets, written, gap, address,
                    image_bytes, packet, image, packed, current_frame, arr,
                    animate, entry_frame >>

NextWave ==
    \/ Dedupe
    \/ WavePlay
    \/ WaveInterrupt
    \/ WaveWriteFails

SpecWave == InitWave /\ [][NextWave]_vars

----------------------------------------------------------------------------
(* Properties of the wire encoding                                         *)

\* The value of an upper-case hexadecimal digit given as its ASCII code.
HexValue(c) ==
    IF c >= 48 /\ c <= 57 THEN c - 48
    ELSE IF c >= 65 /\ c <= 70 THEN c - 55
    ELSE -4096

HexPair(hi, lo) == 16 * HexValue(hi) + HexValue(lo)

\* The body of a packet: everything between STX and the two checksum digits.
BodyOf(p) == SubSeq(p, 2, Len(p) - 2)

ChecksumOf(p) == HexPair(p[Len(p) - 1], p[Len(p)])

\* C1: the packet ends in two upper-case hex digits whose value is
\* (256 - (sum of body bytes mod 256)) mod 256, the body being command and
\* address, resolution, payload hex and the raw ETX, STX excluded; so
\* (sum(body) + checksum) mod 256 = 0.  Address 2 with payload [0xFF] gives
\* 0x02 "12" "01" "FF" 0x03 "AD".
ChecksumInvariant ==
    pc = "built" =>
        LET body == BodyOf(packet)
            ck == ChecksumOf(packet)
        IN  /\ packet[1] = 2
            /\ body = << 49, (IF address < 10 THEN 48 + address ELSE 55 + address) >>
                        \o SubSeq(packet, 4, Len(packet) - 3) \o << 3 >>
            /\ ck \in 0..255
            /\ ck = (256 - (SumSeq(body) % 256)) % 256
            /\ (SumSeq(body) + ck) % 256 = 0
            /\ (address = 2 /\ image_bytes = << 255 >>) =>
                   packet = << 2, 49, 50, 48, 49, 70, 70, 3, 65, 68 >>

ChecksumWitness ==
    /\ pc = "built"
    /\ address = 2
    /\ image_bytes = << 255 >>
    /\ packet = << 2, 49, 50, 48, 49, 70, 70, 3, 65, 68 >>

\* The length L the packet declares in its resolution field.
DeclaredLen(p) == HexPair(p[4], p[5])

\* C3 as stated: for every payload of N bytes, N >= 256 included, byte 0 is
\* 0x02, the length is 1 + 2 + 2 + 2N + 1 + 2, and the byte at offset
\* 5 + 2L (L the declared length) is 0x03.
FrameShapeDeclared ==
    pc = "built" =>
        /\ packet[1] = 2
        /\ Len(packet) = 1 + 2 + 2 + 2 * Len(image_bytes) + 1 + 2
        /\ packet[5 + 2 * DeclaredLen(packet) + 1] = 3

\* C3 amended: byte 0 is 0x02, the length is 1 + 2 + 2 + 2N + 1 + 2, the
\* resolution field declares N mod 256 and ETX sits at offset 5 + 2N; the
\* offset 5 + 2L computed from the declared length holds ETX when N <= 255.
FrameShape ==
    pc = "built" =>
        LET N == Len(image_bytes)
            L == DeclaredLen(packet)
        IN  /\ packet[1] = 2
            /\ Len(packet) = 1 + 2 + 2 + 2 * N + 1 + 2
            /\ L = N % 256
            /\ packet[5 + 2 * N + 1] = 3
            /\ N <= 255 => packet[5 + 2 * L + 1] = 3

FrameShapeWitness ==
    /\ pc = "built"
    /\ Len(image_bytes) = 256
    /\ DeclaredLen(packet) = 0
    /\ packet[5 + 2 * 256 + 1] = 3

\* Bit k (0 = least significant) of a byte.
Bit(b, k) == (b \div Pow2(k)) % 2

CeilDiv8(n) == (n \div 8) + (IF n % 8 = 0 THEN 0 ELSE 1)

\* The grid a packed byte string of a grid of at most 8 rows stands for.
Unpack(bs, rows, cols) ==
    [r \in 1..rows |-> [c \in 1..cols |-> Bit(bs[c], r - 1)]]

\* C2: an H x W grid packs into W * G bytes, G = ceil(H / 8), column by
\* column and within a column group by group from the top; bit k of the byte
\* of column c and group g is set iff row 8g + k exists and is lit in column
\* c.  For H <= 8 unpacking gives the grid back.
PackLayout ==
    pc = "packed" =>
        LET H == Len(image)
            W == Len(image[1])
            G == CeilDiv8(H)
        IN  /\ Len(packed) = W * G
            /\ \A c \in 0..(W - 1), g \in 0..(G - 1), k \in 0..7 :
                   (Bit(packed[c * G + g + 1], k) = 1) <=>
                       (8 * g + k < H /\ image[8 * g + k + 1][c + 1] = 1)
            /\ \A n \in 1..(W * G) : packed[n] \in 0..255
            /\ H <= 8 => Unpack(packed, H, W) = image

PackLayoutWitness ==
    /\ pc = "packed"
    /\ Len(image) = 9
    /\ Len(image[1]) = 2
    /\ image[9][2] = 1
    /\ image[3][1] = 1
    /\ packed = << 4, 0, 0, 1 >>

----------------------------------------------------------------------------
(* Properties of the animations and of display()                           *)

Blank == [r \in 1..DISP_H |-> [c \in 1..DISP_W |-> 0]]

Fits == Len(arr[1]) <= DISP_W

\* The bitmap of the running call, filled up with blank columns on the right.
Bitmap == [r \in 1..DISP_H |-> [c \in 1..DISP_W |->
              IF c <= Len(arr[1]) THEN arr[r][c] ELSE 0]]

\* The frame the running call rolls to.
RollTarget == IF Fits THEN Bitmap ELSE Blank

\* Rows [0, s) from new rows [0, s), rows [s, H) from old rows [0, H - s).
ShiftedFrame(old, new, s) ==
    [r \in 1..DISP_H |-> IF r - 1 < s THEN new[r] ELSE old[r - s]]

RollSequence(old, new) ==
    [s \in 1..DISP_H |-> _frame_to_packet(ShiftedFrame(old, new, s))]

\* C4: a roll from old to new transmits exactly H frames, in the order of
\* the shifts 1..H; the frame of shift s has rows [0, s) of new on top and
\* rows [0, H - s) of old below, so the first frame takes only row 0 from new
\* and the last one is new.
RollFrames ==
    pc = "roll" =>
        /\ Len(written) <= DISP_H
        /\ packets = << >> => Len(written) = DISP_H
        /\ \A s \in 1..Len(written) :
               written[s] = _frame_to_packet(ShiftedFrame(entry_frame, RollTarget, s))
        /\ Len(written) >= 1 =>
               written[1] = _frame_to_packet(
                   << RollTarget[1] >> \o SubSeq(entry_frame, 1, DISP_H - 1))
        /\ Len(written) = DISP_H => written[DISP_H] = _frame_to_packet(RollTarget)

RollFramesWitness ==
    /\ pc = "roll"
    /\ packets = << >>
    /\ Len(written) = DISP_H
    /\ Fits
    /\ entry_frame # Blank
    /\ entry_frame[1] # entry_frame[DISP_H]
    /\ Bitmap # entry_frame
    /\ written[DISP_H] = _frame_to_packet(Bitmap)

\* The packets the scroll of the running call has written so far.
ScrollSent ==
    IF animate THEN SubSeq(written, DISP_H + 1, Len(written)) ELSE written

Min(a, b) == IF a <= b THEN a ELSE b

\* C5 as stated: a finished scroll has emitted one window per offset 0, step,
\* 2*step, ... up to bitmap.width + W inclusive, a last offset past the bound
\* clamped to it, each the W columns of the padded bitmap from that offset;
\* the first and the last window are blank.
ScrollWindows ==
    (pc = "scroll" /\ packets = << >>) =>
        LET bw == Len(arr[1])
            padded == [r \in 1..DISP_H |-> [c \in 1..(bw + 2 * DISP_W) |->
                          IF c > DISP_W /\ c <= DISP_W + bw
                          THEN arr[r][c - DISP_W] ELSE 0]]
            count == ((bw + DISP_W + SCROLL_STEP - 1) \div SCROLL_STEP) + 1
            offset(n) == Min((n - 1) * SCROLL_STEP, bw + DISP_W)
        IN  /\ Len(ScrollSent) = count
            /\ \A n \in 1..count :
                   ScrollSent[n] = _frame_to_packet(
                       [r \in 1..DISP_H |->
                           SubSeq(padded[r], offset(n) + 1, offset(n) + DISP_W)])
            /\ ScrollSent[1] = _frame_to_packet(Blank)
            /\ ScrollSent[count] = _frame_to_packet(Blank)

\* C6: a finished display() call has written exactly: the one packet of the
\* bitmap (fits, no animation); the H roll frames from the frame left by the
\* previous call to the bitmap (fits, animated); the scroll frames only
\* (overflow, no animation); the H roll frames to blank and then the scroll
\* frames (overflow, animated).  The tracked frame is then the bitmap when it
\* fits and blank when it overflows.
DisplayModes ==
    pc = "returned" =>
        /\ (Fits /\ ~animate) =>
               /\ written = << _frame_to_packet(Bitmap) >>
               /\ current_frame = Bitmap
        /\ (Fits /\ animate) =>
               /\ written = RollSequence(entry_frame, Bitmap)
               /\ current_frame = Bitmap
        /\ (~Fits /\ ~animate) =>
               /\ written = scroll_packets(arr)
               /\ current_frame = Blank
        /\ (~Fits /\ animate) =>
               /\ written = RollSequence(entry_frame, Blank) \o scroll_packets(arr)
               /\ current_frame = Blank

DisplayModesWitness ==
    /\ pc = "returned"
    /\ ~Fits
    /\ animate
    /\ entry_frame # Blank
    /\ Len(written) = DISP_H + Len(arr[1]) + DISP_W
    /\ current_frame = Blank

\* The running request still has packets to write.
Pending ==
    /\ pc \in {"send_frame", "roll", "scroll"}
    /\ \/ packets # << >>
       \/ pc = "roll" /\ ~Fits

\* C8: the tracked frame does not change while a request still has packets
\* to write; when a write or flush fails the exception leaves display() with
\* the tracked frame as it was on entry, the failed packet and those after it
\* unwritten, and nothing is written afterwards.
FailureKeepsState ==
    [][ /\ Pending => current_frame' = current_frame
        /\ pc' = "raised" =>
               /\ current_frame' = entry_frame'
               /\ written' = written
               /\ packets' = packets
        /\ pc = "raised" => (pc' = "raised" /\ written' = written) ]_vars

FailureWitness ==
    /\ pc = "raised"
    /\ ~Fits
    /\ animate
    /\ Len(written) > DISP_H
    /\ packets # << >>
    /\ entry_frame # Blank
    /\ current_frame = entry_frame

\* C10 as stated: after a finished display() call the tracked frame is the
\* frame of the last packet written.
TrackedIsShown ==
    pc = "returned" => written[Len(written)] = _frame_to_packet(current_frame)

\* C7 as stated: in a roll, a scroll and the playback loop alike, the next
\* write starts at least FRAME_INTERVAL after the write before it started.
PacedWrites ==
    (pc \in {"roll", "scroll", "playing"} /\ gap # -1) => gap >= FRAME_INTERVAL

----------------------------------------------------------------------------
(* Properties of dedupe_packets                                            *)

\* The positions of x that start a run of equal packets.
RunStarts(x) == {i \in 1..Len(x) : i = 1 \/ x[i] # x[i - 1]}

\* x with every maximal run of equal consecutive packets collapsed to one.
Collapse(x) ==
    [n \in 1..Cardinality(RunStarts(x)) |->
        x[CHOOSE i \in RunStarts(x) :
              Cardinality({j \in RunStarts(x) : j <= i}) = n]]

NoRepeat(x) == \A i \in 1..(Len(x) - 1) : x[i] # x[i + 1]

\* C9 as stated: dedupe collapses the runs of any input, and gives the empty
\* list for the empty list.
DedupeTotal ==
    pc # "wave_start" =>
        /\ pc # "index_error"
        /\ deduped = Collapse(raw_packets)
        /\ (deduped # << >>) <=> (raw_packets # << >>)

\* C9 amended: for a non-empty input dedupe returns the input with every
\* maximal run collapsed: no two neighbours equal, not longer than the input,
\* not empty, and unchanged by a second dedupe; for the empty input it raises
\* IndexError and returns nothing.
DedupeCollapses ==
    pc # "wave_start" =>
        /\ raw_packets # << >> =>
               /\ pc # "index_error"
               /\ deduped = Collapse(raw_packets)
               /\ NoRepeat(deduped)
               /\ Len(deduped) <= Len(raw_packets)
               /\ deduped # << >>
               /\ dedupe_packets(deduped) = [raised |-> FALSE, value |-> deduped]
        /\ raw_packets = << >> => pc = "index_error"

DedupeWitness ==
    /\ pc = "playing"
    /\ Len(raw_packets) = 6
    /\ raw_packets[1] = raw_packets[2]
    /\ raw_packets[2] # raw_packets[3]
    /\ raw_packets[3] = raw_packets[4]
    /\ raw_packets[4] = raw_packets[5]
    /\ raw_packets[6] = raw_packets[1]
    /\ deduped = << raw_packets[1], raw_packets[3], raw_packets[1] >>

====
